---- MODULE Spec2Model ----
(***************************************************************************)
(* Model of src/server/processLauncher.ts: launchProcess after a           *)
(* successful spawn.  The state is the closure of launchProcess (its       *)
(* flags, its two one-shot promises, its listener list), the child and     *)
(* the host process as Node shows them to that closure, and one record     *)
(* per promise handed out by gracefullyClose() and kill().                 *)
(*                                                                         *)
(* Granularity: one action is one turn of the Node event loop, that is     *)
(* one event handler or API call together with every promise reaction      *)
(* (microtask) it makes runnable.  Asynchronous I/O (the caller's          *)
(* graceful-close operation, the child's death) completes in actions of    *)
(* its own.  The work of cleanup() is done off the event loop: a directory *)
(* disappears in a step of its own, its removal settles in a later turn,   *)
(* and cleanup() ends in the turn in which the last removal settles.  The  *)
(* child writes its output in steps of its own; the host reads each line   *)
(* in a later turn.                                                        *)
(***************************************************************************)
EXTENDS Naturals, Sequences, FiniteSets

\* ------------------------------------------------------------------ bounds
\* Number of gracefullyClose()/kill() calls (from the caller or a signal).
MaxCalls == 3
\* Number of entries of options.tempDirectories.
NumDirs == 2
\* Number of lines the child writes (to stdout and stderr together, or to the
\* stream waitForLine reads).
MaxLines == 2
\* Number of distinct line contents.
NumLineKinds == 2

\* ------------------------------------------------------- program constants
\* process.exit(130) in the SIGINT forwarder.
SigintExitCode == 130

Signals == {"SIGINT", "SIGTERM", "SIGHUP"}
TempDirs == 1..NumDirs
\* Exit codes of a host that terminates for a reason of its own.
HostCodes == {0, 1}
\* The contents a line can have.
Lines == 1..NumLineKinds
\* The errors the OS can report for a spawn that yields no pid.
OsErrors == {"ENOENT", "EACCES"}
\* The exceptions childProcess.spawn can throw instead of returning: the
\* OS refusing the argument list, and Node refusing the arguments.
SpawnExceptions == {"E2BIG", "ERR_INVALID_ARG_VALUE"}
\* What the call of childProcess.spawn can end with.
SpawnResults == {"pid", "noPid"} \cup SpawnExceptions

VARIABLES
  options,            \* [handle : SUBSET Signals]: handleSIGINT/SIGTERM/SIGHUP
  host,               \* the Node process running launchProcess
  child,              \* spawnedProcess: pid, killed, and the OS process behind it
  exitObserver,       \* spawnedProcess.once('exit', ...) still registered
  exitEmitted,        \* Node has emitted spawnedProcess 'exit'
  processClosed,      \* let processClosed
  gracefullyClosing,  \* let gracefullyClosing
  listeners,          \* const listeners: the host events still listened to
  waitForClose,       \* "pending" | "fulfilled"
  waitForCleanup,     \* "pending" | "fulfilled"
  cleanupRun,         \* the cleanup() started by the exit observer
  removing,           \* the directories whose removeFolderAsync of a running
                      \* cleanup() has not settled yet
  hook,               \* options.attemptToGracefullyClose(): its promise
  hookCalls,          \* number of invocations of attemptToGracefullyClose
  calls,              \* one record per gracefullyClose()/kill() call: its kind,
                      \* who made it, the branch it took, processClosed at the
                      \* call, and where its promise stands
  onExitCalls,        \* one entry per options.onExit call: listeners at the call
  killAttempts,       \* number of process.kill(-pid, 'SIGKILL') / taskkill runs
  dirs,               \* the temp directories that still exist
  swallowed,          \* the failures caught and dropped so far
  thrown,             \* an exception escaped a synchronous entry point
  launch,             \* the launchProcess() call and the promise it returned
  relay,              \* options.pipe, the child's stdio, the two line readers,
                      \* the lines written by the child and those given to the logger
  wfl                 \* one waitForLine() call

vars == << options, host, child, exitObserver, exitEmitted, processClosed,
           gracefullyClosing, listeners, waitForClose, waitForCleanup,
           cleanupRun, removing, hook, hookCalls, calls, onExitCalls, killAttempts,
           dirs, swallowed, thrown, launch, relay, wfl >>

\* The state as one record, so that the code's functions are operators on it.
Cur ==
  [ options |-> options, host |-> host, child |-> child,
    exitObserver |-> exitObserver, exitEmitted |-> exitEmitted,
    processClosed |-> processClosed, gracefullyClosing |-> gracefullyClosing,
    listeners |-> listeners, waitForClose |-> waitForClose,
    waitForCleanup |-> waitForCleanup, cleanupRun |-> cleanupRun,
    removing |-> removing,
    hook |-> hook, hookCalls |-> hookCalls, calls |-> calls,
    onExitCalls |-> onExitCalls, killAttempts |-> killAttempts,
    dirs |-> dirs, swallowed |-> swallowed, thrown |-> thrown,
    launch |-> launch, relay |-> relay, wfl |-> wfl ]

Set(s) ==
  /\ options' = s.options
  /\ host' = s.host
  /\ child' = s.child
  /\ exitObserver' = s.exitObserver
  /\ exitEmitted' = s.exitEmitted
  /\ processClosed' = s.processClosed
  /\ gracefullyClosing' = s.gracefullyClosing
  /\ listeners' = s.listeners
  /\ waitForClose' = s.waitForClose
  /\ waitForCleanup' = s.waitForCleanup
  /\ cleanupRun' = s.cleanupRun
  /\ removing' = s.removing
  /\ hook' = s.hook
  /\ hookCalls' = s.hookCalls
  /\ calls' = s.calls
  /\ onExitCalls' = s.onExitCalls
  /\ killAttempts' = s.killAttempts
  /\ dirs' = s.dirs
  /\ swallowed' = s.swallowed
  /\ thrown' = s.thrown
  /\ launch' = s.launch
  /\ relay' = s.relay
  /\ wfl' = s.wfl

\* ------------------------------------------------------------ environment

\* helper.removeEventListeners(listeners): detaches every listener of the
\* list; detaching twice is harmless.
RemoveEventListeners(ls) == {}

\* The listeners launchProcess registers on the host process.
RegisteredListeners(opts) == {"exit"} \cup opts.handle

\* process.kill(-pid, 'SIGKILL') (taskkill /T /F on win32): delivered to a
\* running process group; an exception when the group is gone (the child was
\* reaped, which Node does when it emits 'exit').  For a child that has
\* terminated and is not reaped yet the platform decides: the signal to the
\* zombie succeeds without effect (Linux) or the call throws (taskkill).
SendKill(c, reaped, throws) ==
  IF c.state = "running"
    THEN [child |-> [c EXCEPT !.signalled = TRUE], threw |-> FALSE]
    ELSE [child |-> c, threw |-> reaped \/ throws]

\* for (const dir of options.tempDirectories) removeFolder.sync(dir):
\* removing an absent directory succeeds; failAt = 0 means no removal fails,
\* otherwise the removal of directory failAt throws and ends the loop.
RemoveFolderSyncLoop(d, failAt) ==
  IF failAt = 0
    THEN [dirs |-> {}, threw |-> FALSE]
    ELSE [dirs |-> {x \in d : x >= failAt}, threw |-> TRUE]

\* The failures a turn of the event loop can meet in state s: rm is the
\* failAt of the synchronous removal loop, kill tells whether a kill sent to
\* a terminated, not yet reaped child throws.
FailChoices(s) ==
  [rm : {0} \cup s.dirs,
   kill : IF s.child.state = "dead" /\ ~s.exitEmitted THEN BOOLEAN ELSE {FALSE}]

\* --------------------------------------------------------------- the code

\* Variant of TryForceKill whose guard forgets !processClosed.
TryForceKill_IgnoresClosed(s, fail) ==
  IF s.child.pid /\ ~s.child.killed
    THEN LET k == SendKill(s.child, s.exitEmitted, fail.kill)
         IN [state |-> [s EXCEPT !.child = k.child,
                                 !.killAttempts = @ + 1,
                                 !.swallowed = IF k.threw THEN @ \cup {"kill"} ELSE @],
             threw |-> FALSE]
    ELSE [state |-> s, threw |-> FALSE]

\* killProcess, lines 161-171: the guarded force kill inside its try/catch.
TryForceKill(s, fail) ==
  IF s.child.pid /\ ~s.child.killed /\ ~s.processClosed
    THEN LET k == SendKill(s.child, s.exitEmitted, fail.kill)
         IN [state |-> [s EXCEPT !.child = k.child,
                                 !.killAttempts = @ + 1,
                                 !.swallowed = IF k.threw THEN @ \cup {"kill"} ELSE @],
             threw |-> FALSE]
    ELSE [state |-> s, threw |-> FALSE]

\* Variant of TryRemoveFolders without the try/catch around the loop.
TryRemoveFolders_NoCatch(s, fail) ==
  LET r == RemoveFolderSyncLoop(s.dirs, fail.rm)
  IN [state |-> [s EXCEPT !.dirs = r.dirs], threw |-> r.threw]

\* killProcess, lines 172-176: the synchronous directory removal inside its
\* try/catch.
TryRemoveFolders(s, fail) ==
  LET r == RemoveFolderSyncLoop(s.dirs, fail.rm)
  IN [state |-> [s EXCEPT !.dirs = r.dirs,
                          !.swallowed = IF r.threw THEN @ \cup {"rmSync"} ELSE @],
      threw |-> FALSE]

\* Variant of killProcess that also detaches the child's exit observer.
killProcess_DetachesExitObserver(s, fail) ==
  LET s1 == [s EXCEPT !.listeners = RemoveEventListeners(@), !.exitObserver = FALSE]
      k  == TryForceKill(s1, fail)
      r  == TryRemoveFolders(k.state, fail)
  IN IF k.threw THEN k ELSE r

\* function killProcess(): detach the listeners, force kill, remove the
\* directories.  A throw of a step skips the steps after it.
killProcess(s, fail) ==
  LET s1 == [s EXCEPT !.listeners = RemoveEventListeners(@)]
      k  == TryForceKill(s1, fail)
      r  == TryRemoveFolders(k.state, fail)
  IN IF k.threw THEN k ELSE r

\* The promise reactions made runnable by the current turn: every call
\* suspended on a fulfilled promise resumes and returns.
ResumeCalls(s) ==
  [s EXCEPT !.calls =
     [i \in DOMAIN @ |->
        IF \/ @[i].pc = "awaitClose" /\ s.waitForClose = "fulfilled"
           \/ @[i].pc = "awaitCleanup" /\ s.waitForCleanup = "fulfilled"
          THEN [@[i] EXCEPT !.pc = "resolved"]
          ELSE @[i]]]

\* process.exit(code), or the host ending on its own: Node emits the host's
\* 'exit' event, whose listener (if still attached) is killProcess, and the
\* host is gone.
processExit(s, code, fail) ==
  LET k == IF "exit" \in s.listeners
             THEN killProcess(s, fail)
             ELSE [state |-> s, threw |-> FALSE]
  IN [k.state EXCEPT !.host = [alive |-> FALSE, code |-> code, by |-> "exit"],
                     !.thrown = @ \/ k.threw]

\* Variant of the SIGINT forwarder that calls process.exit(130) in the turn
\* of the signal, without waiting for gracefullyClose().
SigintReaction_ExitsAtOnce(before, s, fail) ==
  IF \E i \in DOMAIN s.calls :
        /\ s.calls[i].origin = "SIGINT"
        /\ i \notin DOMAIN before.calls
    THEN processExit(s, SigintExitCode, fail)
    ELSE s

\* The SIGINT forwarder's gracefullyClose().then(() => process.exit(130)):
\* the reaction runs in the turn in which that call's promise resolves.
SigintReaction(before, s, fail) ==
  IF \E i \in DOMAIN s.calls :
        /\ s.calls[i].origin = "SIGINT"
        /\ s.calls[i].pc = "resolved"
        /\ (i \in DOMAIN before.calls => before.calls[i].pc # "resolved")
    THEN processExit(s, SigintExitCode, fail)
    ELSE s

\* All microtasks of a turn that started in state `before` and reached s.
RunMicrotasks(before, s, fail) ==
  SigintReaction(before, ResumeCalls(s), fail)

\* Variant of the exit observer that calls options.onExit before it detaches
\* the listeners.
onProcessExit_CallbackFirst(s) ==
  LET s1 == [s EXCEPT !.processClosed = TRUE]
      s2 == [s1 EXCEPT !.onExitCalls = Append(@, s1.listeners)]
      s3 == [s2 EXCEPT !.listeners = RemoveEventListeners(@)]
      s4 == [s3 EXCEPT !.waitForClose = "fulfilled"]
  IN [s4 EXCEPT !.cleanupRun = "running", !.removing = TempDirs]

\* The exit observer, lines 117-125; cleanup() starts one removeFolderAsync
\* per entry of options.tempDirectories.
onProcessExit(s) ==
  LET s1 == [s EXCEPT !.processClosed = TRUE]
      s2 == [s1 EXCEPT !.listeners = RemoveEventListeners(@)]
      s3 == [s2 EXCEPT !.onExitCalls = Append(@, s2.listeners)]
      s4 == [s3 EXCEPT !.waitForClose = "fulfilled"]
  IN [s4 EXCEPT !.cleanupRun = "running", !.removing = TempDirs]

\* Variant of gracefullyClose whose reentrant branch returns without
\* awaiting waitForClose.
gracefullyClose_NoWaitForClose(s, origin, fail) ==
  IF s.gracefullyClosing
    THEN LET k == killProcess(s, fail)
         IN [k.state EXCEPT !.calls = Append(@,
               [kind |-> "gracefullyClose", origin |-> origin, reentrant |-> TRUE,
                atClosed |-> s.processClosed,
                pc |-> IF k.threw THEN "rejected" ELSE "resolved"])]
    ELSE [s EXCEPT !.gracefullyClosing = TRUE,
                   !.hook = "pending",
                   !.hookCalls = @ + 1,
                   !.calls = Append(@,
               [kind |-> "gracefullyClose", origin |-> origin, reentrant |-> FALSE,
                atClosed |-> s.processClosed,
                pc |-> "awaitHook"])]

\* Variant of gracefullyClose whose reentrant branch calls
\* attemptToGracefullyClose() again.
gracefullyClose_AttemptsAgain(s, origin, fail) ==
  IF s.gracefullyClosing
    THEN LET k == killProcess(s, fail)
         IN [k.state EXCEPT !.hookCalls = @ + 1,
                            !.calls = Append(@,
               [kind |-> "gracefullyClose", origin |-> origin, reentrant |-> TRUE,
                atClosed |-> s.processClosed,
                pc |-> IF k.threw THEN "rejected" ELSE "awaitClose"])]
    ELSE [s EXCEPT !.gracefullyClosing = TRUE,
                   !.hook = "pending",
                   !.hookCalls = @ + 1,
                   !.calls = Append(@,
               [kind |-> "gracefullyClose", origin |-> origin, reentrant |-> FALSE,
                atClosed |-> s.processClosed,
                pc |-> "awaitHook"])]

\* async function gracefullyClose(), up to its first suspension.
gracefullyClose(s, origin, fail) ==
  IF s.gracefullyClosing
    THEN LET k == killProcess(s, fail)
         IN [k.state EXCEPT !.calls = Append(@,
               [kind |-> "gracefullyClose", origin |-> origin, reentrant |-> TRUE,
                atClosed |-> s.processClosed,
                pc |-> IF k.threw THEN "rejected" ELSE "awaitClose"])]
    ELSE [s EXCEPT !.gracefullyClosing = TRUE,
                   !.hook = "pending",
                   !.hookCalls = @ + 1,
                   !.calls = Append(@,
               [kind |-> "gracefullyClose", origin |-> origin, reentrant |-> FALSE,
                atClosed |-> s.processClosed,
                pc |-> "awaitHook"])]

\* Variant of line 152 that goes on to await waitForClose.
afterHook_AwaitsClose(s, outcome, fail) ==
  LET k == IF outcome = "rejected"
             THEN killProcess(s, fail)
             ELSE [state |-> s, threw |-> FALSE]
  IN [k.state EXCEPT !.hook = outcome,
                     !.calls = [i \in DOMAIN @ |->
                        IF @[i].pc = "awaitHook"
                          THEN [@[i] EXCEPT !.pc =
                                  IF k.threw THEN "rejected" ELSE "awaitClose"]
                          ELSE @[i]]]

\* Variant of line 152 without the .catch: a rejection of the operation
\* rejects the call.
afterHook_NoCatch(s, outcome, fail) ==
  [s EXCEPT !.hook = outcome,
            !.calls = [i \in DOMAIN @ |->
               IF @[i].pc = "awaitHook"
                 THEN [@[i] EXCEPT !.pc =
                         IF outcome = "rejected" THEN "rejected" ELSE "awaitCleanup"]
                 ELSE @[i]]]

\* Variant of line 152 that clears gracefullyClosing once the operation has
\* settled.
afterHook_ResetsFlag(s, outcome, fail) ==
  LET k == IF outcome = "rejected"
             THEN killProcess(s, fail)
             ELSE [state |-> s, threw |-> FALSE]
  IN [k.state EXCEPT !.hook = outcome,
                     !.gracefullyClosing = FALSE,
                     !.calls = [i \in DOMAIN @ |->
                        IF @[i].pc = "awaitHook"
                          THEN [@[i] EXCEPT !.pc =
                                  IF k.threw THEN "rejected" ELSE "awaitCleanup"]
                          ELSE @[i]]]

\* Line 152 once attemptToGracefullyClose() has settled:
\* .catch(() => killProcess()), then the call goes on to await waitForCleanup.
afterHook(s, outcome, fail) ==
  LET k == IF outcome = "rejected"
             THEN killProcess(s, fail)
             ELSE [state |-> s, threw |-> FALSE]
  IN [k.state EXCEPT !.hook = outcome,
                     !.calls = [i \in DOMAIN @ |->
                        IF @[i].pc = "awaitHook"
                          THEN [@[i] EXCEPT !.pc =
                                  IF k.threw THEN "rejected" ELSE "awaitCleanup"]
                          ELSE @[i]]]

\* Variant of killAndWait that returns waitForClose.
killAndWait_ReturnsWaitForClose(s, fail) ==
  LET k == killProcess(s, fail)
  IN IF k.threw
       THEN [k.state EXCEPT !.thrown = TRUE]
       ELSE [k.state EXCEPT !.calls = Append(@,
               [kind |-> "kill", origin |-> "caller", reentrant |-> FALSE,
                atClosed |-> s.processClosed,
                pc |-> "awaitClose"])]

\* function killAndWait(): killProcess(), then return waitForCleanup.
killAndWait(s, fail) ==
  LET k == killProcess(s, fail)
  IN IF k.threw
       THEN [k.state EXCEPT !.thrown = TRUE]
       ELSE [k.state EXCEPT !.calls = Append(@,
               [kind |-> "kill", origin |-> "caller", reentrant |-> FALSE,
                atClosed |-> s.processClosed,
                pc |-> "awaitCleanup"])]

\* cleanup(), lines 71-73: the removeFolderAsync of directory d settles.  A
\* failure is caught and printed and leaves the directory; removing an
\* absent directory succeeds.
removeFolderAsyncSettled(s, d, ok) ==
  [s EXCEPT !.removing = @ \ {d},
            !.dirs = IF ok THEN @ \ {d} ELSE @,
            !.swallowed = IF ok THEN @ ELSE @ \cup {"rmAsync"}]

\* The outcomes the removal of directory d can have in state s.
RemovalOutcomes(s, d) == IF d \in s.dirs THEN BOOLEAN ELSE {TRUE}

\* The signals the caller passes to launchedProcess.kill(): "0" only tests
\* the process, SIGTERM asks it to terminate (the child may or may not).
HandleSignals == {"0", "SIGTERM"}

\* launchedProcess.kill(sig) on the ChildProcess of the LaunchResult (line
\* 184): Node sends sig to the child alone and, when the send succeeded, sets
\* spawnedProcess.killed, the flag killProcess reads at line 161.  The send
\* succeeds as long as Node holds the process handle, that is until it has
\* emitted 'exit'.
launchedProcessKill(s, sig) ==
  IF s.child.pid /\ ~s.exitEmitted
    THEN [s EXCEPT !.child.killed = TRUE]
    ELSE s

\* The removal of directory d, at work off the event loop, has taken d from
\* the disk; its callback has not run yet.
removeFolderAsyncWorked(s, d) ==
  [s EXCEPT !.dirs = @ \ {d}]

\* cleanup().then(fulfillCleanup), line 124, in the turn in which the last
\* removal has settled.
cleanupFinished(s) ==
  [s EXCEPT !.cleanupRun = "finished",
            !.waitForCleanup = "fulfilled"]

\* ------------------------------------------------- launchProcess, the call

Streams == {"stdout", "stderr"}
\* The file descriptor of each stream in the stdio array (1-based here).
StdioIndex(stream) == IF stream = "stdout" THEN 2 ELSE 3
\* browserStdOutLog / browserStdErrLog.
Channel(stream) == IF stream = "stdout" THEN "browser:out" ELSE "browser:err"

\* const stdio, line 77.
Stdio(pipe) ==
  IF pipe THEN << "ignore", "pipe", "pipe", "pipe", "pipe" >>
          ELSE << "ignore", "pipe", "pipe" >>

\* The launch record before launchProcess is called, and once it has
\* returned a LaunchResult.
NotLaunched ==
  [phase |-> "idle", cleanup |-> "idle", error |-> "none",
   promise |-> "pending", reason |-> "none"]
Launched ==
  [phase |-> "launched", cleanup |-> "idle", error |-> "none",
   promise |-> "resolved", reason |-> "none"]

\* The promise chain of line 98, cleanup().then(() => failedPromise)
\* .then(e => Promise.reject(e)): the launch rejects, with the Error built
\* from the 'error' event, once the cleanup has ended and the event has come.
launchSettle(s) ==
  IF /\ s.launch.phase = "failing"
     /\ s.launch.cleanup = "finished"
     /\ s.launch.error \in OsErrors
    THEN [s EXCEPT !.launch.phase = "failed",
                   !.launch.promise = "rejected",
                   !.launch.reason = s.launch.error]
    ELSE s

\* Lines 92-98: no pid.  A once-listener for 'error' is registered and
\* cleanup() is started; nothing else is.
spawnFailed(s) ==
  [s EXCEPT !.removing = TempDirs,
            !.launch = [phase |-> "failing", cleanup |-> "running",
                        error |-> "pending", promise |-> "pending",
                        reason |-> "none"]]

\* Lines 100-136 and 184: the two line readers, the exit observer, the host
\* listeners, and the LaunchResult.
launchSetup(s) ==
  [s EXCEPT !.child = [pid |-> TRUE, killed |-> FALSE, state |-> "running",
                       signalled |-> FALSE],
            !.relay.readers = Streams,
            !.exitObserver = TRUE,
            !.listeners = RegisteredListeners(s.options),
            !.launch = Launched]

\* Lines 79-91: childProcess.spawn throws e.  No try surrounds the call, so
\* the async function ends there: its promise is rejected with e itself in
\* the turn of the call, cleanup() is not called and no listener exists.
spawnThrew(s, e) ==
  [s EXCEPT !.launch = [phase |-> "failed", cleanup |-> "idle",
                        error |-> "none", promise |-> "rejected",
                        reason |-> e]]

\* launchProcess(options), lines 76-99: the stdio of line 77, the spawn, and
\* then the path of its result: it threw, it returned a ChildProcess without
\* pid, or it returned one with a pid.
launchProcess(s, result) ==
  LET s1 == [s EXCEPT !.relay.stdio = Stdio(s.relay.pipe)]
  IN IF result \in SpawnExceptions THEN spawnThrew(s1, result)
     ELSE IF result = "noPid" THEN spawnFailed(s1)
     ELSE launchSetup(s1)

\* The lines of seq written to stream, in order.
StreamLines(seq, stream) ==
  LET OnStream(w) == w.stream = stream
  IN SelectSeq(seq, OnStream)

\* stdout.on('line', ...) / stderr.on('line', ...), lines 103-110: a line
\* read from a stream goes to the logger under the stream's channel.
onOutputLine(s, stream, data) ==
  IF stream \in s.relay.readers /\ s.relay.stdio[StdioIndex(stream)] = "pipe"
    THEN [s EXCEPT !.relay.log = Append(@, [channel |-> Channel(stream), data |-> data])]
    ELSE s

\* waitForLine has not been called.
NoWaitForLine ==
  [phase |-> "idle"]

\* ------------------------------------------------------------ waitForLine

\* The four listeners of lines 192-195.
WflListeners == {"line", "close", "exit", "error"}
\* The errors a process 'error' event can carry.
ProcessErrors == {"EPIPE"}
\* The values of the timeout argument: 0 (none) or a delay.
Timeouts == {0, 500}

\* line.match(regex), line 217: the pattern is given by the set of line
\* contents it matches; the match carries the matched line.
Matches(pattern, line) == line \in pattern

\* A settled promise keeps its first outcome; every resolve()/reject() call
\* is counted.
Settle(w, promise, value) ==
  [w EXCEPT !.promise = IF @ = "pending" THEN promise ELSE @,
            !.value = IF w.promise = "pending" THEN value ELSE @,
            !.settleCalls = @ + 1]

\* A handler of waitForLine runs; `late` counts the runs made after the
\* promise had settled.
HandlerRun(w) ==
  [w EXCEPT !.late = IF w.promise # "pending" THEN @ + 1 ELSE @]

\* Variant of cleanup (lines 224-228) that forgets clearTimeout.
wflCleanup_KeepsTimer(w) ==
  [w EXCEPT !.listeners = RemoveEventListeners(@)]

\* function cleanup(), lines 224-228.
wflCleanup(w) ==
  [w EXCEPT !.timer = IF w.timeout # 0 /\ @ = "armed" THEN "cleared" ELSE @,
            !.listeners = RemoveEventListeners(@)]

\* Variant of onClose whose message leaves out the lines collected.
onClose_DropsLines(w, error) ==
  Settle(wflCleanup(HandlerRun(w)), "rejected",
         [kind |-> "termination", error |-> error, lines |-> << >>, line |-> 0])

\* function onClose(error?), lines 199-208; error = "none" for a call
\* without argument.  The message holds the error's message and stderr.
onClose(w, error) ==
  Settle(wflCleanup(HandlerRun(w)), "rejected",
         [kind |-> "termination", error |-> error, lines |-> w.stderr, line |-> 0])

\* function onTimeout(), lines 210-213: rejects with timeoutError.
onTimeout(w) ==
  Settle(wflCleanup(HandlerRun(w)), "rejected",
         [kind |-> "timeout", error |-> "none", lines |-> << >>, line |-> 0])

\* Variant of onLine that resolves without calling cleanup().
onLine_NoCleanup(w, line) ==
  LET w1 == [HandlerRun(w) EXCEPT !.stderr = Append(@, line)]
  IN IF ~Matches(w.pattern, line)
       THEN w1
       ELSE Settle(w1, "resolved",
                   [kind |-> "match", error |-> "none", lines |-> << >>, line |-> line])

\* function onLine(line), lines 215-222.
onLine(w, line) ==
  LET w1 == [HandlerRun(w) EXCEPT !.stderr = Append(@, line)]
  IN IF ~Matches(w.pattern, line)
       THEN w1
       ELSE Settle(wflCleanup(w1), "resolved",
                   [kind |-> "match", error |-> "none", lines |-> << >>, line |-> line])

\* waitForLine(process, inputStream, regex, timeout, timeoutError), lines
\* 188-197: the state when it has returned its promise.
waitForLine(pattern, timeout) ==
  [phase |-> "waiting", pattern |-> pattern, timeout |-> timeout,
   listeners |-> WflListeners,
   timer |-> IF timeout # 0 THEN "armed" ELSE "none",
   stderr |-> << >>,
   promise |-> "pending",
   value |-> [kind |-> "none", error |-> "none", lines |-> << >>, line |-> 0],
   settleCalls |-> 0, late |-> 0,
   delivered |-> << >>, events |-> {}, lastError |-> "none"]

\* ------------------------------------------------------------------- Init

\* The state when launchProcess returns its LaunchResult (line 184).
Init ==
  /\ options \in [handle : SUBSET Signals]
  /\ host = [alive |-> TRUE, code |-> 0, by |-> "none"]
  /\ child = [pid |-> TRUE, killed |-> FALSE, state |-> "running", signalled |-> FALSE]
  /\ exitObserver = TRUE
  /\ exitEmitted = FALSE
  /\ processClosed = FALSE
  /\ gracefullyClosing = FALSE
  /\ listeners = RegisteredListeners(options)
  /\ waitForClose = "pending"
  /\ waitForCleanup = "pending"
  /\ cleanupRun = "idle"
  /\ removing = {}
  /\ hook = "idle"
  /\ hookCalls = 0
  /\ calls = << >>
  /\ onExitCalls = << >>
  /\ killAttempts = 0
  /\ dirs = TempDirs
  /\ swallowed = {}
  /\ thrown = FALSE
  /\ launch = Launched
  /\ relay = [pipe |-> FALSE, stdio |-> Stdio(FALSE), readers |-> Streams,
              written |-> << >>, read |-> [stream \in Streams |-> 0],
              log |-> << >>]
  /\ wfl = NoWaitForLine

\* ---------------------------------------------------------------- actions

\* The caller invokes gracefullyClose().
CallGracefullyClose ==
  /\ host.alive
  /\ Len(calls) < MaxCalls
  /\ \E fail \in FailChoices(Cur) :
       Set(RunMicrotasks(Cur, gracefullyClose(Cur, "caller", fail), fail))

\* The caller invokes kill().
CallKill ==
  /\ host.alive
  /\ Len(calls) < MaxCalls
  /\ \E fail \in FailChoices(Cur) :
       Set(RunMicrotasks(Cur, killAndWait(Cur, fail), fail))

\* The host receives a signal that launchProcess listens to: the forwarder
\* calls gracefullyClose().
SignalForwarded ==
  /\ host.alive
  /\ Len(calls) < MaxCalls
  /\ \E sig \in Signals \cap listeners, fail \in FailChoices(Cur) :
       Set(RunMicrotasks(Cur, gracefullyClose(Cur, sig, fail), fail))

\* The host receives a signal nothing listens to: the default disposition
\* ends the host at once, without an 'exit' event.
SignalUnhandled ==
  /\ host.alive
  /\ \E sig \in Signals \ listeners :
       Set([Cur EXCEPT !.host = [alive |-> FALSE, code |-> 0, by |-> "signal"]])

\* The host terminates for a reason of its own (process.exit elsewhere).
HostExit ==
  /\ host.alive
  /\ \E code \in HostCodes, fail \in FailChoices(Cur) :
       Set(processExit(Cur, code, fail))

\* options.attemptToGracefullyClose() settles.
HookSettles ==
  /\ host.alive
  /\ hook = "pending"
  /\ \E outcome \in {"resolved", "rejected"}, fail \in FailChoices(Cur) :
       Set(RunMicrotasks(Cur, afterHook(Cur, outcome, fail), fail))

\* The child process terminates: on its own, because the graceful-close
\* operation asked it to, or because it was killed.
ChildDies ==
  /\ child.state = "running"
  /\ Set([Cur EXCEPT !.child.state = "dead"])

\* Node emits spawnedProcess 'exit' (once per child); the once-listener of
\* line 117 runs if it is registered, and is removed by running.
ChildExitEvent ==
  /\ host.alive
  /\ child.state = "dead"
  /\ ~exitEmitted
  /\ \E fail \in FailChoices(Cur) :
       LET s0 == [Cur EXCEPT !.exitEmitted = TRUE]
           s1 == IF exitObserver
                   THEN [onProcessExit(s0) EXCEPT !.exitObserver = FALSE]
                   ELSE s0
       IN Set(RunMicrotasks(Cur, s1, fail))

\* The caller invokes launchedProcess.kill(sig).
CallLaunchedProcessKill ==
  /\ host.alive
  /\ launch.phase = "launched"
  /\ \E sig \in HandleSignals : Set(launchedProcessKill(Cur, sig))

\* A removeFolderAsync of a running cleanup() removes its directory from the
\* disk.
RemoveFolderAsyncWorks ==
  /\ host.alive
  /\ \E d \in removing \cap dirs : Set(removeFolderAsyncWorked(Cur, d))

\* One removeFolderAsync of the cleanup() started by the exit observer
\* settles; with the last one Promise.all resolves and fulfillCleanup runs.
RemoveFolderAsyncSettles ==
  /\ host.alive
  /\ cleanupRun = "running"
  /\ \E d \in removing :
       \E ok \in RemovalOutcomes(Cur, d), fail \in FailChoices(Cur) :
         LET s1 == removeFolderAsyncSettled(Cur, d, ok)
             s2 == IF s1.removing = {} THEN cleanupFinished(s1) ELSE s1
         IN Set(RunMicrotasks(Cur, s2, fail))

Next ==
  \/ CallGracefullyClose
  \/ CallKill
  \/ CallLaunchedProcessKill
  \/ SignalForwarded
  \/ SignalUnhandled
  \/ HostExit
  \/ HookSettles
  \/ ChildDies
  \/ ChildExitEvent
  \/ RemoveFolderAsyncWorks
  \/ RemoveFolderAsyncSettles

Spec == Init /\ [][Next]_vars

\* The launches whose progress is followed to the end: handleSIGINT and
\* handleSIGTERM are set, handleSIGHUP is not, so that a forwarder that ends
\* the host, one that does not, and a signal nothing listens to are all
\* present.
HandledWhenFollowed == {"SIGINT", "SIGTERM"}
InitFollowed == Init /\ options.handle = HandledWhenFollowed

\* The launches whose attemptToGracefullyClose() never settles.
NextHookNeverSettles ==
  \/ CallGracefullyClose
  \/ CallKill
  \/ CallLaunchedProcessKill
  \/ SignalForwarded
  \/ SignalUnhandled
  \/ HostExit
  \/ ChildDies
  \/ ChildExitEvent
  \/ RemoveFolderAsyncWorks
  \/ RemoveFolderAsyncSettles

\* What the platform guarantees while the host runs: a child that received
\* SIGKILL terminates, Node delivers the 'exit' event of a terminated child,
\* and the asynchronous directory removal ends.
KilledChildDies == ChildDies /\ child.signalled
Fairness ==
  /\ WF_vars(KilledChildDies)
  /\ WF_vars(ChildExitEvent)
  /\ WF_vars(RemoveFolderAsyncSettles)

SpecHookNeverSettles == InitFollowed /\ [][NextHookNeverSettles]_vars /\ Fairness

\* The environment in which every operation terminates: the caller's
\* attemptToGracefullyClose() settles, a child that was closed gracefully or
\* killed terminates, Node delivers its 'exit' event, and the asynchronous
\* directory removal ends.
ClosedChildDies == ChildDies /\ (child.signalled \/ hook = "resolved")
FairnessAllSettle ==
  /\ WF_vars(HookSettles)
  /\ WF_vars(ClosedChildDies)
  /\ WF_vars(ChildExitEvent)
  /\ WF_vars(RemoveFolderAsyncSettles)

\* The launches followed to their end: the host does not end for a reason
\* of its own (only the SIGINT forwarder's process.exit(130) ends it), so that
\* every promise has a host to resolve in.
NextAllSettle ==
  \/ CallGracefullyClose
  \/ CallKill
  \/ CallLaunchedProcessKill
  \/ SignalForwarded
  \/ HookSettles
  \/ ChildDies
  \/ ChildExitEvent
  \/ RemoveFolderAsyncWorks
  \/ RemoveFolderAsyncSettles

SpecAllSettle == InitFollowed /\ [][NextAllSettle]_vars /\ FairnessAllSettle

\* ---------------------------------------- launchProcess and the output relay

\* The state in which launchProcess(options) is called.
InitLaunch ==
  /\ options \in [handle : SUBSET Signals]
  /\ host = [alive |-> TRUE, code |-> 0, by |-> "none"]
  /\ child = [pid |-> FALSE, killed |-> FALSE, state |-> "none", signalled |-> FALSE]
  /\ exitObserver = FALSE
  /\ exitEmitted = FALSE
  /\ processClosed = FALSE
  /\ gracefullyClosing = FALSE
  /\ listeners = {}
  /\ waitForClose = "pending"
  /\ waitForCleanup = "pending"
  /\ cleanupRun = "idle"
  /\ removing = {}
  /\ hook = "idle"
  /\ hookCalls = 0
  /\ calls = << >>
  /\ onExitCalls = << >>
  /\ killAttempts = 0
  /\ dirs = TempDirs
  /\ swallowed = {}
  /\ thrown = FALSE
  /\ launch = NotLaunched
  /\ \E pipe \in BOOLEAN :
       relay = [pipe |-> pipe, stdio |-> << >>, readers |-> {},
                written |-> << >>, read |-> [stream \in Streams |-> 0],
                log |-> << >>]
  /\ wfl = NoWaitForLine

\* launchProcess(options) is called; the spawn yields a pid or none, or
\* throws.
Launch ==
  /\ host.alive
  /\ launch.phase = "idle"
  /\ \E result \in SpawnResults : Set(launchProcess(Cur, result))

\* One removeFolderAsync of the cleanup() of the no-pid path settles; with
\* the last one the cleanup has ended and the chain of line 98 goes on.
LaunchRemoveFolderSettles ==
  /\ host.alive
  /\ launch.phase = "failing"
  /\ launch.cleanup = "running"
  /\ \E d \in removing :
       \E ok \in RemovalOutcomes(Cur, d) :
         LET s1 == removeFolderAsyncSettled(Cur, d, ok)
         IN Set(launchSettle(
                  IF s1.removing = {}
                    THEN [s1 EXCEPT !.launch.cleanup = "finished"]
                    ELSE s1))

\* Node emits the 'error' event of the failed spawn.
SpawnErrorEvent ==
  /\ host.alive
  /\ launch.phase = "failing"
  /\ launch.error = "pending"
  /\ \E e \in OsErrors : Set(launchSettle([Cur EXCEPT !.launch.error = e]))

\* The child writes a line to its stdout or stderr: a step of the child,
\* the line waits in the pipe.
ChildWritesLine ==
  /\ launch.phase = "launched"
  /\ child.state = "running"
  /\ Len(relay.written) < MaxLines
  /\ \E stream \in Streams, data \in Lines :
       Set([Cur EXCEPT !.relay.written = Append(@, [stream |-> stream, data |-> data])])

\* The host reads the next line of one of the two pipes: readline emits
\* 'line' on that stream.  The two pipes are read independently.
ReaderLine ==
  /\ host.alive
  /\ launch.phase = "launched"
  /\ \E stream \in Streams :
       LET pending == StreamLines(relay.written, stream)
           n == relay.read[stream] + 1
       IN /\ n <= Len(pending)
          /\ Set(onOutputLine([Cur EXCEPT !.relay.read[stream] = n],
                               stream, pending[n].data))

NextLaunch ==
  \/ Launch
  \/ LaunchRemoveFolderSettles
  \/ SpawnErrorEvent
  \/ ChildWritesLine
  \/ ReaderLine
  \/ ChildDies
  \/ ChildExitEvent
  \/ RemoveFolderAsyncWorks
  \/ RemoveFolderAsyncSettles
  \/ HostExit
  \/ SignalUnhandled

SpecLaunch == InitLaunch /\ [][NextLaunch]_vars

\* ------------------------------------------------------------ waitForLine

\* waitForLine has just returned its promise, for some pattern and timeout,
\* on a launched process.
InitWaitForLine ==
  /\ options = [handle |-> {}]
  /\ host = [alive |-> TRUE, code |-> 0, by |-> "none"]
  /\ child = [pid |-> TRUE, killed |-> FALSE, state |-> "running", signalled |-> FALSE]
  /\ exitObserver = TRUE
  /\ exitEmitted = FALSE
  /\ processClosed = FALSE
  /\ gracefullyClosing = FALSE
  /\ listeners = RegisteredListeners(options)
  /\ waitForClose = "pending"
  /\ waitForCleanup = "pending"
  /\ cleanupRun = "idle"
  /\ removing = {}
  /\ hook = "idle"
  /\ hookCalls = 0
  /\ calls = << >>
  /\ onExitCalls = << >>
  /\ killAttempts = 0
  /\ dirs = TempDirs
  /\ swallowed = {}
  /\ thrown = FALSE
  /\ launch = Launched
  /\ relay = [pipe |-> FALSE, stdio |-> Stdio(FALSE), readers |-> Streams,
              written |-> << >>, read |-> [stream \in Streams |-> 0],
              log |-> << >>]
  /\ \E pattern \in SUBSET Lines, timeout \in Timeouts :
       wfl = waitForLine(pattern, timeout)

\* The reader emits a line (none after its 'close').
WflLine ==
  /\ Len(wfl.delivered) < MaxLines
  /\ "close" \notin wfl.events
  /\ \E line \in Lines :
       LET w == [wfl EXCEPT !.delivered = Append(@, line)]
       IN Set([Cur EXCEPT !.wfl =
                 IF "line" \in wfl.listeners THEN onLine(w, line) ELSE w])

\* The reader emits 'close'.
WflStreamClose ==
  /\ "close" \notin wfl.events
  /\ LET w == [wfl EXCEPT !.events = @ \cup {"close"}]
     IN Set([Cur EXCEPT !.wfl =
               IF "close" \in wfl.listeners THEN onClose(w, "none") ELSE w])

\* The process emits 'exit'.
WflProcessExit ==
  /\ "exit" \notin wfl.events
  /\ LET w == [wfl EXCEPT !.events = @ \cup {"exit"}]
     IN Set([Cur EXCEPT !.wfl =
               IF "exit" \in wfl.listeners THEN onClose(w, "none") ELSE w])

\* The process emits 'error'.
WflProcessError ==
  /\ "error" \notin wfl.events
  /\ \E e \in ProcessErrors :
       LET w == [wfl EXCEPT !.events = @ \cup {"error"}, !.lastError = e]
       IN Set([Cur EXCEPT !.wfl =
                 IF "error" \in wfl.listeners THEN onClose(w, e) ELSE w])

\* The timer set at line 197 expires.
WflTimer ==
  /\ wfl.timer = "armed"
  /\ Set([Cur EXCEPT !.wfl =
            onTimeout([wfl EXCEPT !.timer = "fired", !.events = @ \cup {"timer"}])])

NextWaitForLine ==
  \/ WflLine
  \/ WflStreamClose
  \/ WflProcessExit
  \/ WflProcessError
  \/ WflTimer

SpecWaitForLine == InitWaitForLine /\ [][NextWaitForLine]_vars

\* ------------------------------------------------------------- properties

GcCalls == {i \in DOMAIN calls : calls[i].kind = "gracefullyClose"}
KillCalls == {i \in DOMAIN calls : calls[i].kind = "kill"}
FirstCalls == {i \in GcCalls : ~calls[i].reentrant}
ReentrantCalls == {i \in GcCalls : calls[i].reentrant}

\* The child's exit event has been handled by the exit observer.
ExitObserved == exitEmitted /\ processClosed /\ Len(onExitCalls) >= 1
\* The cleanup started by the exit observer has ended and been signalled.
CleanupComplete == cleanupRun = "finished" /\ waitForCleanup = "fulfilled"

\* This step is a call of kill() that returned its promise.
KillIssued ==
  Len(calls') = Len(calls) + 1 /\ calls'[Len(calls')].kind = "kill"
\* This step is a gracefullyClose() call made while an earlier
\* gracefullyClose() call has not resolved.
ReentrantIssued ==
  /\ Len(calls') = Len(calls) + 1
  /\ calls'[Len(calls')].kind = "gracefullyClose"
  /\ \E i \in GcCalls : calls[i].pc \notin {"resolved", "rejected"}

\* C1 as stated: no gracefulClose() promise, of a first or of a reentrant
\* call, is resolved before the child's exit has been observed and the
\* exit-triggered cleanup has completed.
C1_AllCallsWaitForCleanup ==
  \A i \in GcCalls :
    calls[i].pc = "resolved" => ExitObserved /\ CleanupComplete

\* C1 amended: no gracefulClose() promise is resolved before the child's exit
\* has been observed (closed signal fired); the promise of a call that took
\* the non-reentrant branch is moreover not resolved before the cleanup has
\* completed.
C1_ResolvedOnlyAfterExit ==
  \A i \in GcCalls :
    calls[i].pc = "resolved" =>
      /\ ExitObserved
      /\ waitForClose = "fulfilled"
      /\ (~calls[i].reentrant => CleanupComplete)

\* A first call and a reentrant call, made before the exit, both resolved.
C1_Witness ==
  /\ \E i \in FirstCalls : calls[i].pc = "resolved" /\ ~calls[i].atClosed
  /\ \E i \in ReentrantCalls : calls[i].pc = "resolved" /\ ~calls[i].atClosed

\* C2: when attemptToGracefullyClose has resolved, the first gracefulClose()
\* call waits on the cleanup-complete signal, and its promise is resolved
\* only after the exit was handled (onExit called, closed fired) and the
\* cleanup started by the exit observer has finished.
C2_FirstCallAfterCleanup ==
  \A i \in FirstCalls :
    hook = "resolved" =>
      /\ calls[i].pc \in {"awaitCleanup", "resolved"}
      /\ (calls[i].pc = "resolved") = (waitForCleanup = "fulfilled")
      /\ (calls[i].pc = "resolved" =>
            ExitObserved /\ waitForClose = "fulfilled" /\ cleanupRun = "finished")

\* The operation resolved and the first call has resolved.
C2_Witness ==
  hook = "resolved" /\ \E i \in FirstCalls : calls[i].pc = "resolved"

\* C3: onExit is called at most once, and exactly once when the child's
\* exit event has been emitted.
C3_OnExitExactlyOnce ==
  /\ Len(onExitCalls) <= 1
  /\ exitEmitted = (Len(onExitCalls) = 1)

\* The exit event arrived after a kill() that reached the child.
C3_Witness ==
  /\ \E i \in KillCalls : ~calls[i].atClosed
  /\ child.signalled
  /\ exitEmitted
  /\ Len(onExitCalls) = 1

\* C4: at every onExit call the host listeners of the launch are already
\* detached, they stay detached, and from then on no signal makes a
\* gracefulClose call or a kill attempt.
C4_ListenersDetachedBeforeOnExit ==
  /\ [](\A k \in DOMAIN onExitCalls : onExitCalls[k] = {})
  /\ [](Len(onExitCalls) > 0 => listeners = {})
  /\ [][Len(onExitCalls) > 0 =>
          /\ killAttempts' = killAttempts
          /\ (Len(calls') > Len(calls) => calls'[Len(calls')].origin = "caller")]_vars

\* All three signals were forwarded at launch, onExit has been called, and a
\* signal that came later found no listener.
C4_Witness ==
  /\ options.handle = Signals
  /\ Len(onExitCalls) = 1
  /\ host.by = "signal"

\* C5: no kill() call throws and no promise returned by kill() rejects,
\* whichever of the kill step and the directory removal fails.
C5_KillNeverThrows ==
  /\ ~thrown
  /\ \A i \in KillCalls : calls[i].pc \in {"awaitCleanup", "resolved"}

\* Only kill() was called, before and after the exit; a kill step and a
\* directory removal both failed.
C5_Witness ==
  /\ host.alive
  /\ \A i \in DOMAIN calls : calls[i].kind = "kill"
  /\ \E i \in KillCalls : ~calls[i].atClosed
  /\ \E i \in KillCalls : calls[i].atClosed
  /\ {"kill", "rmSync"} \subseteq swallowed

\* C6: a gracefulClose() call made while an earlier one is unresolved leaves
\* no child running without the forceful termination signal, and onExit is
\* called at most once.
C6_SecondCallKillsChild ==
  [][ReentrantIssued =>
       /\ ~(child'.state = "running" /\ ~child'.signalled)
       /\ Len(onExitCalls') <= 1]_vars

\* C7: when attemptToGracefullyClose never settles, a second gracefulClose()
\* call is followed by every gracefulClose() promise, the first call's
\* included, being resolved (as long as the host runs).
\* C7 as stated: when attemptToGracefullyClose never settles, a second
\* gracefulClose() call is followed by every gracefulClose() promise, the
\* first call's included, being resolved (as long as the host runs).
C7_BothCallsResolve ==
  (ReentrantCalls # {}) ~>
     (~host.alive \/ \A i \in GcCalls : calls[i].pc = "resolved")

\* C8: a rejection of attemptToGracefullyClose never rejects a
\* gracefulClose() promise: killProcess runs in the turn of the rejection
\* (listeners detached, the signal sent when its guard of line 161 lets it),
\* and the call then resolves on cleanup-complete.
C8_HookRejectionEscalates ==
  /\ [](\A i \in GcCalls : calls[i].pc # "rejected")
  /\ [](hook = "rejected" =>
          /\ listeners = {}
          /\ \A i \in FirstCalls :
               /\ calls[i].pc \in {"awaitCleanup", "resolved"}
               /\ (calls[i].pc = "resolved") = (waitForCleanup = "fulfilled")
               /\ (calls[i].pc = "resolved" => ExitObserved /\ cleanupRun = "finished"))
  /\ [][hook = "pending" /\ hook' = "rejected" =>
          /\ killAttempts' = IF processClosed \/ child.killed
                                THEN killAttempts ELSE killAttempts + 1
          /\ (child.state = "running" /\ ~child.killed => child'.signalled)]_vars

\* The operation rejected, the child was killed, the first call resolved.
C8_Witness ==
  /\ hook = "rejected"
  /\ child.signalled
  /\ Len(calls) = 1
  /\ calls[1].pc = "resolved"

\* C9: a kill() call made after the child's exit was observed sends no
\* signal, calls onExit no second time, leaves processClosed and
\* gracefullyClosing as they are, does not throw, and returns a promise that
\* is resolved as soon as cleanup-complete has fired.
C9_KillAfterExitIsNoop ==
  /\ [][processClosed /\ KillIssued =>
          /\ killAttempts' = killAttempts
          /\ child' = child
          /\ onExitCalls' = onExitCalls
          /\ processClosed' = processClosed
          /\ gracefullyClosing' = gracefullyClosing
          /\ hookCalls' = hookCalls
          /\ host' = host
          /\ thrown' = thrown
          /\ calls'[Len(calls')].pc =
               IF waitForCleanup = "fulfilled" THEN "resolved" ELSE "awaitCleanup"]_vars
  /\ [][processClosed /\ Len(calls') = Len(calls) => thrown' = thrown]_vars

\* kill() was called after the exit was observed, and its promise resolved.
C9_Witness ==
  \E i \in KillCalls : calls[i].atClosed /\ calls[i].pc = "resolved"

\* C10: the promise returned by kill() is waitForCleanup: it is resolved
\* exactly when cleanup-complete has fired, hence only after the exit was
\* observed and the cleanup started by the exit observer has finished.
C10_KillResolvesOnCleanup ==
  \A i \in KillCalls :
    /\ calls[i].pc \in {"awaitCleanup", "resolved"}
    /\ (calls[i].pc = "resolved") = (waitForCleanup = "fulfilled")
    /\ (calls[i].pc = "resolved" => ExitObserved /\ cleanupRun = "finished")

\* kill() sent the signal while the child ran; its promise resolved later.
C10_Witness ==
  /\ \E i \in KillCalls : ~calls[i].atClosed /\ calls[i].pc = "resolved"
  /\ \A i \in DOMAIN calls : calls[i].kind = "kill"
  /\ child.signalled

\* C11: when the spawn yields no pid, launchProcess never returns a
\* LaunchResult; its promise rejects only after cleanup() has ended, with the
\* error of the failed spawn; and on this path no exit observer, no host
\* listener and no line reader is registered and onExit is not called.
C11_NoPidLaunchFails ==
  launch.phase \in {"failing", "failed"} =>
    /\ ~child.pid
    /\ launch.promise \in {"pending", "rejected"}
    /\ (launch.promise = "rejected") = (launch.phase = "failed")
    /\ (launch.promise = "rejected" =>
          /\ launch.cleanup = "finished"
          /\ launch.reason \in OsErrors \cup SpawnExceptions)
    /\ ~exitObserver
    /\ listeners = {}
    /\ relay.readers = {}
    /\ onExitCalls = << >>
    /\ calls = << >>

\* C16: with options.pipe unset no line of the child's stdout or stderr is
\* given to the logger.
C16_NoLogWithoutPipe ==
  ~relay.pipe => relay.log = << >>

\* The index of the first line of seq the pattern matches, 0 if there is none.
FirstMatch(seq, pattern) ==
  IF \E k \in DOMAIN seq : Matches(pattern, seq[k])
    THEN CHOOSE k \in DOMAIN seq :
           /\ Matches(pattern, seq[k])
           /\ \A j \in 1..(k - 1) : ~Matches(pattern, seq[j])
    ELSE 0

\* The terminating event (close, exit, error) this step delivers, if any.
NewEvents == wfl'.events \ wfl.events

\* C12: the promise of waitForLine settles at most once, by one arm; from
\* then on the four listeners are detached and the timer is not pending, and
\* no handler of waitForLine runs again.
C12_ExactlyOneArm ==
  /\ wfl.settleCalls <= 1
  /\ wfl.late = 0
  /\ (wfl.promise = "pending") = (wfl.settleCalls = 0)
  /\ (wfl.promise = "pending") = (wfl.value.kind = "none")
  /\ (wfl.promise = "resolved") = (wfl.value.kind = "match")
  /\ (wfl.promise # "pending" => wfl.listeners = {} /\ wfl.timer # "armed")

\* The promise resolved on a line with the timer cleared; the close, exit
\* and error events and a further line all came afterwards.
C12_Witness ==
  /\ wfl.promise = "resolved"
  /\ wfl.timer = "cleared"
  /\ wfl.events = {"close", "exit", "error"}
  /\ Len(wfl.delivered) > Len(wfl.stderr)

\* C13: while the promise is pending no delivered line matches and every
\* delivered line is recorded; a resolved promise carries the match of the
\* first matching line delivered, and the record ends with that line.
C13_FirstMatchingLine ==
  LET k == FirstMatch(wfl.delivered, wfl.pattern)
  IN /\ (wfl.promise = "pending" => k = 0 /\ wfl.stderr = wfl.delivered)
     /\ (wfl.promise = "resolved" =>
           /\ k > 0
           /\ wfl.value.line = wfl.delivered[k]
           /\ wfl.stderr = SubSeq(wfl.delivered, 1, k))

\* The first line matched and resolved the promise; a second, different
\* line that matches too came later and changed nothing.
C13_Witness ==
  /\ wfl.promise = "resolved"
  /\ Len(wfl.delivered) = 2
  /\ wfl.delivered[1] # wfl.delivered[2]
  /\ Matches(wfl.pattern, wfl.delivered[2])
  /\ wfl.value.line = wfl.delivered[1]
  /\ wfl.stderr = << wfl.delivered[1] >>

\* C14: a close, exit or error event that comes while the promise is pending
\* rejects it with the termination failure, which holds every line delivered
\* so far, in order, and the error's message when the event was an error; a
\* termination failure is never the timeout error.
C14_TerminationFailure ==
  /\ [](wfl.value.kind = "termination" =>
          /\ wfl.promise = "rejected"
          /\ wfl.value.lines = wfl.stderr
          /\ wfl.stderr = SubSeq(wfl.delivered, 1, Len(wfl.stderr))
          /\ FirstMatch(wfl.stderr, wfl.pattern) = 0)
  /\ [][wfl.promise = "pending" /\ NewEvents # {} /\ NewEvents \subseteq {"close", "exit", "error"} =>
          /\ wfl'.promise = "rejected"
          /\ wfl'.value =
               [kind |-> "termination",
                error |-> IF "error" \in NewEvents THEN wfl'.lastError ELSE "none",
                lines |-> wfl.delivered,
                line |-> 0]]_vars

\* Two lines that do not match were delivered, then the process emitted an
\* error: the failure holds both lines and the error.
C14_Witness ==
  /\ wfl.promise = "rejected"
  /\ wfl.value.kind = "termination"
  /\ wfl.value.error \in ProcessErrors
  /\ Len(wfl.value.lines) = 2
  /\ wfl.timer = "cleared"

SigintCalls == {i \in GcCalls : calls[i].origin = "SIGINT"}
\* The host was ended by process.exit(130).
ExitedWith130 == host = [alive |-> FALSE, code |-> SigintExitCode, by |-> "exit"]

\* C15 as stated: the host exits with status 130 when the gracefulClose()
\* call of an intercepted SIGINT resolves, and process.exit(130) never runs
\* before the child's exit was observed and the cleanup has completed.
C15_Exit130AfterCleanup ==
  /\ \A i \in SigintCalls : calls[i].pc = "resolved" => ExitedWith130
  /\ host.code = SigintExitCode => ExitObserved /\ CleanupComplete

\* C15 amended: the host exits with status 130 in the turn in which the
\* gracefulClose() call of an intercepted SIGINT resolves; process.exit(130)
\* never runs before the child's exit was observed, and when that call took
\* the non-reentrant branch not before the cleanup has completed either.
C15_Exit130AfterClose ==
  /\ \A i \in SigintCalls : calls[i].pc = "resolved" => ExitedWith130
  /\ host.code = SigintExitCode =>
       /\ ExitedWith130
       /\ ExitObserved
       /\ waitForClose = "fulfilled"
       /\ \E i \in SigintCalls : calls[i].pc = "resolved"
       /\ \A i \in SigintCalls :
            calls[i].pc = "resolved" /\ ~calls[i].reentrant => CleanupComplete

\* SIGINT was the first shutdown request, the operation resolved, and the
\* host exited with 130 after the cleanup.
C15_Witness ==
  /\ ExitedWith130
  /\ hook = "resolved"
  /\ Len(calls) = 1
  /\ calls[1].origin = "SIGINT"
  /\ calls[1].pc = "resolved"
  /\ CleanupComplete

\* The child runs and no forceful signal has reached it.
ChildUnsignalled == child.state = "running" /\ ~child.signalled

\* C17: the host-exit guard is never detached while the child runs
\* unsignalled, and whenever the host has gone through its 'exit' event
\* before the child's exit was observed, the forceful signal has been sent.
C17_NeverOrphanedAtHostExit ==
  /\ ("exit" \notin listeners => ~ChildUnsignalled)
  /\ (host.by = "exit" /\ ~processClosed =>
        killAttempts >= 1 /\ ~ChildUnsignalled)

\* This step is a gracefullyClose() call.
GcIssued ==
  Len(calls') = Len(calls) + 1 /\ calls'[Len(calls')].kind = "gracefullyClose"

\* C18 as stated: once the child's exit was observed, a gracefulClose() call
\* does not call attemptToGracefullyClose, sends no signal, does not call
\* onExit and leaves processClosed set.
C18_CloseAfterExitIsNoop ==
  [][processClosed /\ GcIssued =>
       /\ hookCalls' = hookCalls
       /\ killAttempts' = killAttempts
       /\ onExitCalls' = onExitCalls
       /\ processClosed']_vars

\* C18 amended: once the child's exit was observed, no step sends a signal,
\* calls onExit or clears processClosed; a gracefulClose() call then leaves
\* attemptToGracefullyClose alone if gracefulClose() had been called before,
\* and otherwise calls it once and sets gracefullyClosing.
C18_CloseAfterExitSendsNothing ==
  /\ [][processClosed =>
          /\ killAttempts' = killAttempts
          /\ child' = child
          /\ onExitCalls' = onExitCalls
          /\ processClosed']_vars
  /\ [][processClosed /\ GcIssued =>
          /\ hookCalls' = IF gracefullyClosing THEN hookCalls ELSE hookCalls + 1
          /\ calls'[Len(calls')].reentrant = gracefullyClosing
          /\ gracefullyClosing']_vars

\* After the exit gracefulClose() was called twice: the first call invoked
\* the operation, the second did not; both resolved.
C18_Witness ==
  /\ Len(calls) = 2
  /\ \A i \in DOMAIN calls :
       calls[i].kind = "gracefullyClose" /\ calls[i].atClosed /\ calls[i].pc = "resolved"
  /\ hookCalls = 1
  /\ killAttempts = 0

\* Idle = 0, GracefullyClosing = 1, Closed = 2, from the two flags.
ShutdownState(closed, closing) == IF closed THEN 2 ELSE IF closing THEN 1 ELSE 0

\* C19: the shutdown state never moves backwards, neither flag is ever
\* cleared, and a gracefulClose() call made in GracefullyClosing leaves both
\* flags as they are and only runs killProcess (listeners detached, the
\* signal sent when the guard of line 161 lets it).
C19_ShutdownStateMonotonic ==
  /\ [][ShutdownState(processClosed', gracefullyClosing') >=
          ShutdownState(processClosed, gracefullyClosing)]_vars
  /\ [][(processClosed => processClosed') /\
        (gracefullyClosing => gracefullyClosing')]_vars
  /\ [][GcIssued /\ gracefullyClosing /\ ~processClosed =>
          /\ gracefullyClosing' /\ ~processClosed'
          /\ hookCalls' = hookCalls
          /\ calls'[Len(calls')].reentrant
          /\ killAttempts' = IF child.killed THEN killAttempts ELSE killAttempts + 1
          /\ listeners' = {}]_vars

\* The three states were passed in order, with a reentrant call on the way.
C19_Witness ==
  /\ processClosed
  /\ gracefullyClosing
  /\ hook = "resolved"
  /\ \E i \in ReentrantCalls : ~calls[i].atClosed

\* C20: while the host keeps running, every promise returned by
\* gracefulClose() and by kill() is eventually resolved, given that the
\* operation settles, the closed or killed child exits and the directory
\* removals end.
C20_EveryCallResolves ==
  \A k \in 1..MaxCalls :
    (Len(calls) >= k) ~>
      (~host.alive \/ (Len(calls) >= k /\ calls[k].pc = "resolved"))

====
